---- MODULE Spec2Model ----
(***************************************************************************)
(* The chat relay of chatbot_server.py: the /api/chat and /health handlers *)
(* and query_ollama, as a state machine over requests, backend calls and   *)
(* responses.                                                              *)
(*                                                                         *)
(* A string is a sequence of characters.  A character is a record          *)
(* [ch, src]: ch is the character, src records where it was typed (the     *)
(* request's message, a history turn, or a literal of the program).  No    *)
(* operation of the program reads src; it exists so that properties about  *)
(* the origin of the prompt's text can be stated.                          *)
(*                                                                         *)
(* Two server runs are modelled side by side (Runs).  Under Spec only run  *)
(* 1 takes steps; under PairSpec both do, over a smaller set of requests,  *)
(* so that two runs with different pasts can be compared.                  *)
(***************************************************************************)
EXTENDS Integers, Sequences, FiniteSets, TLC

VARIABLES pc, req, calls, reply, resp, escaped, last

vars == <<pc, req, calls, reply, resp, escaped, last>>

Runs == {1, 2}

\* ---------------------------------------------------------------- bounds

\* Longest history a request carries.
MaxHist == 5
\* How far beyond the per-turn limit a turn's text may run.
MaxOver == 1
\* Longest message a request carries.
MaxMsgLen == 3
\* Longest generated text the backend replies with.
MaxGenLen == 1

\* ------------------------------------------------------ program constants

\* msg['content'][:300]
TurnLimit == 300
\* conversation_history[-4:]
HistoryWindow == 4

MODEL_NAME == "chemeng-tutor"

OLLAMA_BASE_URL == "http://localhost:11434"

SYSTEM_PROMPT ==
  "You are an expert Chemical Engineering tutor.\n\nFORMATTING:\n- Use LaTeX for math: $inline$ or $$display$$\n- Use markdown: **bold**, lists, code blocks\n- Always include units\n\nTEACHING:\n- Be clear, accurate, and concise\n- Provide step-by-step explanations for complex topics\n- Give numerical examples when helpful\n- For simple questions, answer directly\n\nTHINKING (OPTIONAL):\n- For complex multi-step problems, you MAY briefly show reasoning in <thinking> tags\n- Keep thinking SHORT and focused on key steps\n- For simple questions, skip thinking and answer directly\n\nRESTRICTIONS:\n- ONLY Chemical Engineering topics\n- If asked other topics: \"I specialize in Chemical Engineering topics!\"\n\nMaintain high accuracy while being efficient."

\* The sampling options of the payload (decimals kept as text).
Options ==
  [temperature |-> "0.6", top_p |-> "0.9", num_ctx |-> 6144,
   num_predict |-> 1536, top_k |-> 40]

\* ---------------------------------------------------------------- strings

Char(c, kind, i, j) == [ch |-> c, src |-> <<kind, i, j>>]

\* A literal of the program, from its characters.
Lit(s) == [k \in 1..Len(s) |-> Char(s[k], "lit", 0, 0)]

\* What str.strip() removes.
IsSpace(c) == c \in {" ", "\n", "\t"}

SetMin(S) == CHOOSE x \in S : \A y \in S : x <= y

SetMax(S) == CHOOSE x \in S : \A y \in S : x >= y

\* Strip with the trailing whitespace left in place (str.lstrip()).
StripLeading(s) ==
  LET keep == {k \in 1..Len(s) : ~IsSpace(s[k].ch)}
  IN  IF keep = {} THEN <<>> ELSE SubSeq(s, SetMin(keep), Len(s))

\* str.strip(): leading and trailing whitespace removed.
Strip(s) ==
  LET keep == {k \in 1..Len(s) : ~IsSpace(s[k].ch)}
  IN  IF keep = {} THEN <<>> ELSE SubSeq(s, SetMin(keep), SetMax(keep))

\* s[:n]
Take(s, n) == SubSeq(s, 1, IF Len(s) < n THEN Len(s) ELSE n)

\* LastN with the slice taken from the front (s[:n]).
FirstN(s, n) == SubSeq(s, 1, IF Len(s) > n THEN n ELSE Len(s))

\* s[-n:]
LastN(s, n) == SubSeq(s, IF Len(s) > n THEN Len(s) - n + 1 ELSE 1, Len(s))

RECURSIVE Join(_, _)
\* sep.join(parts)
Join(sep, parts) ==
  IF parts = <<>> THEN <<>>
  ELSE IF Len(parts) = 1 THEN parts[1]
  ELSE parts[1] \o sep \o Join(sep, Tail(parts))

RecentContext ==
  Lit(<<"R","e","c","e","n","t"," ","c","o","n","t","e","x","t",":","\n">>)

StudentLabel == Lit(<<"S","t","u","d","e","n","t">>)

TutorLabel == Lit(<<"T","u","t","o","r">>)

ColonSpace == Lit(<<":"," ">>)

BlankLine == Lit(<<"\n","\n">>)

\* ------------------------------------------------------------ the values

\* Python's None, and a str value, as query_ollama returns them.
None == [kind |-> "none", val |-> <<>>]

Str(s) == [kind |-> "str", val |-> s]

\* A JSON value of the request body that is absent or of another type.
Other(k) == [kind |-> k, val |-> <<>>]

\* A list value of the request body.
List(l) == [kind |-> "list", val |-> l]

\* bool(v), for the values the handler tests.
Truthy(v) ==
  \/ v.kind \in {"str", "list"} /\ Len(v.val) > 0
  \/ v.kind = "truthy_nonlist"

\* ------------------------------------------------------------ the inputs

MsgAlphabet == {"a", " "}

\* Every text of at most n characters over the alphabet, typed as `kind`.
Texts(alphabet, n, kind) ==
  UNION {{[j \in 1..k |-> Char(f[j], kind, 0, j)] : f \in [1..k -> alphabet]}
         : k \in 0..n}

\* The text of turn i of a history, n characters long.
TurnContent(i, n) == [j \in 1..n |-> Char("x", "hist", i, j)]

\* The message field of a request body: missing, of another JSON type
\* (null, a number, ...), or a string.
Messages ==
  {Other("absent"), Other("nonstring")}
    \cup {Str(s) : s \in Texts(MsgAlphabet, MaxMsgLen, "msg")}

\* A turn as the caller sends it.  shape tells what the JSON value is: an
\* object with role and content ("ok"), an object lacking a key, an object
\* whose content is not text (null, a number), or no object at all.
Turn(shape, role, content) ==
  [shape |-> shape, role |-> role, content |-> content]

Malformed == {"norole", "nocontent", "nullcontent", "notobject"}

\* The role of turn i in a conversation whose first speaker is `first`.
Speaker(i, first) ==
  IF (i % 2 = 1) = (first = "user") THEN "user" ELSE "assistant"

\* What sets one turn of a history apart from the rest: the length of its
\* text, a malformed shape, or a role that is neither user nor assistant.
Specials ==
  {[shape |-> "ok", role |-> "", len |-> n]
     : n \in {0} \cup ((TurnLimit - 1)..(TurnLimit + MaxOver))}
    \cup {[shape |-> s, role |-> "", len |-> 2] : s \in Malformed}
    \cup {[shape |-> "ok", role |-> "system", len |-> 2]}

\* A history of n turns, alternating speakers, turn p being special.
History(n, first, p, sp) ==
  [i \in 1..n |->
     IF i = p
     THEN Turn(sp.shape, IF sp.role = "" THEN Speaker(i, first) ELSE sp.role,
               IF sp.shape \in {"ok", "norole"}
               THEN TurnContent(i, sp.len) ELSE <<>>)
     ELSE Turn("ok", Speaker(i, first), TurnContent(i, 2))]

Histories ==
  {<<>>} \cup {History(n, first, p, sp)
                 : n \in 1..MaxHist, first \in {"user", "assistant"},
                   p \in 1..MaxHist, sp \in Specials}

\* The history field of a request body: missing, null, a falsy value that
\* is no list (0, "", {}, false), a truthy value that is no list (5, "abc",
\* {"k": 1}, true), or a list of turns.
HistoryValues ==
  {Other("absent"), Other("null"), Other("falsy"), Other("truthy_nonlist")}
    \cup {List(h) : h \in Histories}

\* The body of a POST /api/chat: a JSON object, or anything else (no JSON,
\* a JSON list, string, number or null).
ChatRequest(body, message, history) ==
  [op |-> "chat", body |-> body, message |-> message, history |-> history]

HealthRequest ==
  [op |-> "health", body |-> "none", message |-> Other("absent"),
   history |-> Other("absent")]

NoRequest ==
  [op |-> "none", body |-> "none", message |-> Other("absent"),
   history |-> Other("absent")]

MsgOf(chars) == Str([j \in 1..Len(chars) |-> Char(chars[j], "msg", 0, j)])

\* The chat requests of Spec: every message with the simple histories, and
\* two messages with every history.
Requests ==
  {ChatRequest("other", Other("absent"), Other("absent"))}
    \cup {ChatRequest("object", m, h)
            : m \in Messages,
              h \in {Other("absent"), Other("null"), Other("falsy"),
                     List(<<>>)}}
    \cup {ChatRequest("object", m, h)
            : m \in {MsgOf(<<"a">>), MsgOf(<<" ", "a">>)},
              h \in HistoryValues}

\* The chat requests of PairSpec.
PairRequests ==
  {ChatRequest("object", m, h)
     : m \in {MsgOf(<<>>), MsgOf(<<"a">>)},
       h \in {Other("absent"),
              List(<<Turn("ok", "user", TurnContent(1, 1))>>),
              List(<<Turn("nocontent", "user", <<>>)>>)}}

\* What the backend does with POST /api/generate: the call raises (timeout,
\* connection failure), or a reply arrives with a status and a body.  The
\* body is no JSON ("invalid"), JSON without a "response" key ("nokey"),
\* JSON whose "response" is null ("null"), or JSON carrying generated text.
GenReply(kind, status, exc, body, text) ==
  [kind |-> kind, status |-> status, exc |-> exc, body |-> body, text |-> text]

GenTexts == Texts({"t", " "}, MaxGenLen, "gen")

GenerateReplies ==
  {GenReply("exception", 0, e, "invalid", <<>>)
     : e \in {"Timeout", "ConnectionError"}}
    \cup {GenReply("status", 500, "", "invalid", <<>>),
          GenReply("status", 201, "", "text", <<Char("t", "gen", 0, 1)>>)}
    \cup {GenReply("status", 200, "", b, <<>>)
            : b \in {"invalid", "nokey", "null"}}
    \cup {GenReply("status", 200, "", "text", t) : t \in GenTexts}

NoReply == GenReply("none", 0, "", "invalid", <<>>)

\* What the backend does with GET /api/tags.
TagsReplies ==
  {GenReply("exception", 0, e, "invalid", <<>>)
     : e \in {"Timeout", "ConnectionError"}}
    \cup {GenReply("status", s, "", "invalid", <<>>) : s \in {200, 404, 500}}

\* ---------------------------------------------------------- the responses

Response(status, body) == [status |-> status, body |-> body]

\* jsonify({"error": "Empty message"}), 400
EmptyMessage == Response(400, [error |-> "Empty message"])

\* jsonify({"error": "Failed to generate response"}), 500
FailedToGenerate == Response(500, [error |-> "Failed to generate response"])

\* jsonify({"error": "Internal error"}), 500
InternalError == Response(500, [error |-> "Internal error"])

\* jsonify({"response": bot_response, "model": MODEL_NAME})
Generated(text) == Response(200, [response |-> text, model |-> MODEL_NAME])

Healthy ==
  Response(200, [status |-> "healthy", ollama |-> "connected",
                 model |-> MODEL_NAME])

Unhealthy ==
  Response(503, [status |-> "unhealthy", ollama |-> "disconnected"])

\* str(e) of the exception a backend call raised.
ExcText(e) ==
  IF e = "Timeout" THEN "Read timed out." ELSE "Connection refused"

HealthError(e) == Response(503, [status |-> "error", message |-> ExcText(e)])

\* What a handler that returns r leaves behind: the responses returned and
\* whether an exception left it uncaught.
Returned(r) == [resp |-> <<r>>, escaped |-> FALSE]

\* ---------------------------------------------------------- query_ollama

\* TurnLine with lenient subscripts (msg.get(...)): a malformed turn gives
\* a line without text.
TurnLineLenient(msg) ==
  [raised |-> FALSE,
   line |-> (IF msg.role = "user" THEN StudentLabel ELSE TutorLabel)
              \o ColonSpace \o Take(msg.content, TurnLimit)]

\* One element of the list comprehension: the line of one turn, or the
\* exception its subscripts raise.
TurnLine(msg) ==
  IF msg.shape # "ok"
  THEN [raised |-> TRUE, line |-> <<>>]
  ELSE [raised |-> FALSE,
        line |-> (IF msg.role = "user" THEN StudentLabel ELSE TutorLabel)
                   \o ColonSpace \o Take(msg.content, TurnLimit)]

\* The try block up to the payload: the prompt sent, or an exception.
FullPrompt(prompt, conversation_history) ==
  IF Truthy(conversation_history)
  THEN IF conversation_history.kind # "list"
       THEN [raised |-> TRUE, prompt |-> <<>>]
       ELSE LET recent == LastN(conversation_history.val, HistoryWindow)
                lines == [k \in 1..Len(recent) |-> TurnLine(recent[k])]
            IN  IF \E k \in 1..Len(recent) : lines[k].raised
                THEN [raised |-> TRUE, prompt |-> <<>>]
                ELSE [raised |-> FALSE,
                      prompt |->
                        RecentContext
                          \o Join(BlankLine,
                                  [k \in 1..Len(recent) |-> lines[k].line])
                          \o BlankLine \o StudentLabel \o ColonSpace
                          \o prompt]
  ELSE [raised |-> FALSE, prompt |-> prompt]

\* The JSON body of the POST to /api/generate.
Payload(full_prompt) ==
  [model |-> MODEL_NAME, prompt |-> full_prompt,
   system |-> SYSTEM_PROMPT, stream |-> FALSE, options |-> Options]

\* ReadReply without the test of the status: the body is read whatever
\* the status is.
ReadReplyAnyStatus(rep) ==
  IF rep.kind = "exception"
  THEN [raised |-> TRUE, value |-> None]
  ELSE IF rep.body = "text"
       THEN [raised |-> FALSE, value |-> Str(rep.text)]
       ELSE [raised |-> TRUE, value |-> None]

\* The try block from the reply on: the value returned, or an exception
\* (raised by requests.post, by response.json(), by ["response"], by len).
ReadReply(rep) ==
  IF rep.kind = "exception"
  THEN [raised |-> TRUE, value |-> None]
  ELSE IF rep.status = 200
       THEN IF rep.body = "text"
            THEN [raised |-> FALSE, value |-> Str(rep.text)]
            ELSE [raised |-> TRUE, value |-> None]
       ELSE [raised |-> FALSE, value |-> None]

\* except Exception: return None
QueryCatch(t) == IF t.raised THEN None ELSE t.value

\* ------------------------------------------------------------------ chat

\* RequestJson with a module-level flag set by a failed request: after a
\* response of 500 the history of the next request is dropped.
RequestJsonStale(r, body) ==
  IF last[r] = 500 THEN [body EXCEPT !.history = Other("absent")] ELSE body

\* request.json, as the handler of run r reads it: the body of the request
\* it is handling.
RequestJson(r, body) == body

\* ChatBody with the emptiness test on the message as sent, before strip().
ChatBodyRawCheck(data) ==
  IF data.body # "object" \/ data.message.kind = "nonstring"
  THEN [t |-> "raise", prompt |-> <<>>, history |-> Other("absent")]
  ELSE LET history == IF data.history.kind = "absent"
                      THEN List(<<>>) ELSE data.history
       IN  IF data.message.val = <<>>
           THEN [t |-> "return", prompt |-> <<>>, history |-> history]
           ELSE [t |-> "query", prompt |-> Strip(data.message.val),
                 history |-> history]

\* The try block up to the call of query_ollama: an exception, a response
\* returned, or the arguments of the call.
ChatBody(data) ==
  IF data.body # "object" \/ data.message.kind = "nonstring"
  THEN [t |-> "raise", prompt |-> <<>>, history |-> Other("absent")]
  ELSE LET user_message == Strip(data.message.val)
           history == IF data.history.kind = "absent"
                      THEN List(<<>>) ELSE data.history
       IN  IF user_message = <<>>
           THEN [t |-> "return", prompt |-> <<>>, history |-> history]
           ELSE [t |-> "query", prompt |-> user_message, history |-> history]

\* ChatResponse with the test `bot_response is not None`.
ChatResponseNotNone(bot_response) ==
  IF bot_response.kind = "str"
  THEN Generated(bot_response.val) ELSE FailedToGenerate

\* if bot_response: ... else: ...
ChatResponse(bot_response) ==
  IF Truthy(bot_response)
  THEN Generated(bot_response.val) ELSE FailedToGenerate

\* chat() without its except clause: the exception leaves the handler.
ChatCatchMissing == [resp |-> <<>>, escaped |-> TRUE]

\* except Exception: return jsonify({"error": "Internal error"}), 500
ChatCatch == Returned(InternalError)

\* ---------------------------------------------------------- health_check

\* HealthBody without the test of the status: any reply counts as healthy.
HealthBodyReachable(rep) ==
  [raised |-> rep.kind = "exception", resp |-> Healthy]

\* The try block of health_check: the response, or an exception.
HealthBody(rep) ==
  IF rep.kind = "exception"
  THEN [raised |-> TRUE, resp |-> Healthy]
  ELSE [raised |-> FALSE,
        resp |-> IF rep.status = 200 THEN Healthy ELSE Unhealthy]

\* except Exception as e: return jsonify({"status": "error", ...}), 503
HealthCatch(e) == Returned(HealthError(e))

\* ------------------------------------------------------ the state machine

\* requests.post(f"{OLLAMA_BASE_URL}/api/generate", json=payload, timeout=150)
GenerateCall(full_prompt) ==
  [base |-> OLLAMA_BASE_URL, url |-> "/api/generate",
   json |-> Payload(full_prompt), timeout |-> 150]

\* requests.get(f"{OLLAMA_BASE_URL}/api/tags", timeout=5)
TagsCall == [base |-> OLLAMA_BASE_URL, url |-> "/api/tags", timeout |-> 5]

\* pc[r]      where run r is: "idle", "wait" (in requests.post), "hwait" (in
\*            requests.get) or "done" (the handler has ended)
\* req[r]     the request run r is handling
\* calls[r]   the backend calls issued for it, in order
\* reply[r]   what the backend did with the call
\* resp[r]    the responses the handler returned for it, in order
\* escaped[r] whether an exception left the handler uncaught
\* last[r]    the status of the response to the request before it (0: none)
Init ==
  /\ pc = [r \in Runs |-> "idle"]
  /\ req = [r \in Runs |-> NoRequest]
  /\ calls = [r \in Runs |-> <<>>]
  /\ reply = [r \in Runs |-> NoReply]
  /\ resp = [r \in Runs |-> <<>>]
  /\ escaped = [r \in Runs |-> FALSE]
  /\ last = [r \in Runs |-> 0]

\* The handler of run r ends with `outcome`.
End(r, outcome) ==
  /\ pc' = [pc EXCEPT ![r] = "done"]
  /\ resp' = [resp EXCEPT ![r] = outcome.resp]
  /\ escaped' = [escaped EXCEPT ![r] = outcome.escaped]

\* chat(), from the request to the backend call or to an early response.
ChatRecv(r, q) ==
  /\ pc[r] = "idle"
  /\ req' = [req EXCEPT ![r] = q]
  /\ LET b == ChatBody(RequestJson(r, q))
         f == FullPrompt(b.prompt, b.history)
     IN  IF b.t = "query" /\ ~f.raised
         THEN /\ calls' = [calls EXCEPT ![r] = <<GenerateCall(f.prompt)>>]
              /\ pc' = [pc EXCEPT ![r] = "wait"]
              /\ UNCHANGED <<resp, escaped>>
         ELSE /\ calls' = [calls EXCEPT ![r] = <<>>]
              /\ End(r, IF b.t = "raise" THEN ChatCatch
                        ELSE IF b.t = "return" THEN Returned(EmptyMessage)
                        ELSE Returned(ChatResponse(
                               QueryCatch([raised |-> TRUE, value |-> None]))))
  /\ UNCHANGED <<reply, last>>

\* chat(), from the end of the backend call to the response.
ChatFinish(r) ==
  /\ pc[r] = "wait"
  /\ \E rep \in GenerateReplies :
       /\ reply' = [reply EXCEPT ![r] = rep]
       /\ End(r, Returned(ChatResponse(QueryCatch(ReadReply(rep)))))
  /\ UNCHANGED <<req, calls, last>>

\* health_check(), up to the backend call.
HealthRecv(r) ==
  /\ pc[r] = "idle"
  /\ req' = [req EXCEPT ![r] = HealthRequest]
  /\ calls' = [calls EXCEPT ![r] = <<TagsCall>>]
  /\ pc' = [pc EXCEPT ![r] = "hwait"]
  /\ UNCHANGED <<reply, resp, escaped, last>>

\* health_check(), from the end of the backend call to the response.
HealthFinish(r) ==
  /\ pc[r] = "hwait"
  /\ \E rep \in TagsReplies :
       /\ reply' = [reply EXCEPT ![r] = rep]
       /\ LET b == HealthBody(rep)
          IN  End(r, IF b.raised THEN HealthCatch(rep.exc)
                     ELSE Returned(b.resp))
  /\ UNCHANGED <<req, calls, last>>

\* The exchange is over; the server waits for the next request.  An
\* exception that left the handler is answered by the framework with 500.
Return(r) ==
  /\ pc[r] = "done"
  /\ pc' = [pc EXCEPT ![r] = "idle"]
  /\ last' = [last EXCEPT ![r] =
                IF escaped[r] THEN 500 ELSE resp[r][1].status]
  /\ req' = [req EXCEPT ![r] = NoRequest]
  /\ calls' = [calls EXCEPT ![r] = <<>>]
  /\ reply' = [reply EXCEPT ![r] = NoReply]
  /\ resp' = [resp EXCEPT ![r] = <<>>]
  /\ escaped' = [escaped EXCEPT ![r] = FALSE]

\* One server, every request of Requests.
Next ==
  \/ \E q \in Requests : ChatRecv(1, q)
  \/ ChatFinish(1)
  \/ HealthRecv(1)
  \/ HealthFinish(1)
  \/ Return(1)

Spec == Init /\ [][Next]_vars

\* Two servers, each serving its own sequence of requests.
PairNext ==
  \E r \in Runs :
    \/ \E q \in PairRequests : ChatRecv(r, q)
    \/ ChatFinish(r)
    \/ HealthRecv(r)
    \/ HealthFinish(r)
    \/ Return(r)

PairSpec == Init /\ [][PairNext]_vars

\* ------------------------------------------------------------ the claims
\* Under Spec the claims speak of run 1, the only run that takes steps.

IsChat == req[1].op = "chat"

Done == pc[1] = "done"

\* The calls of the current request that went to the generate endpoint.
GenerateCalls == SelectSeq(calls[1], LAMBDA c : c.url = "/api/generate")

\* The body is a JSON object whose message is missing or a string of
\* whitespace only.
BlankMessage ==
  /\ IsChat
  /\ req[1].body = "object"
  /\ req[1].message.kind \in {"absent", "str"}
  /\ \A k \in 1..Len(req[1].message.val) : IsSpace(req[1].message.val[k].ch)

\* The body is a JSON object whose message is a string with a character
\* that is no whitespace.
NonEmptyMessage ==
  /\ IsChat
  /\ req[1].body = "object"
  /\ req[1].message.kind = "str"
  /\ \E k \in 1..Len(req[1].message.val) : ~IsSpace(req[1].message.val[k].ch)

NoHistory ==
  \/ req[1].history.kind \in {"absent", "null"}
  \/ req[1].history.kind = "list" /\ req[1].history.val = <<>>

\* The backend call ended in a failure: it raised, the status is not 200,
\* or the reply could not be read.
BackendFailed ==
  \/ reply[1].kind = "exception"
  \/ reply[1].kind = "status" /\ reply[1].status # 200
  \/ reply[1].kind = "status" /\ reply[1].body \in {"invalid", "nokey", "null"}

\* The one response returned is `status` with the error text `text`.
ErrorIs(status, text) ==
  /\ Len(resp[1]) = 1
  /\ resp[1][1].status = status
  /\ resp[1][1].body = [error |-> text]

\* C1: a chat request whose message is missing, empty or whitespace only
\* ends with the single response 400 "Empty message", no exception leaves
\* the handler, and no backend call is issued for it.
C1_EmptyMessageRejected ==
  BlankMessage =>
    /\ Done
    /\ ErrorIs(400, "Empty message")
    /\ ~escaped[1]
    /\ calls[1] = <<>>

\* A message of whitespace only has been answered.
C1_Witness ==
  /\ BlankMessage
  /\ Done
  /\ req[1].message.kind = "str"
  /\ Len(req[1].message.val) > 1

\* C2, as claimed: with a non-empty message and no history, the prompt of
\* the backend call is the message as sent, character for character,
\* leading and trailing whitespace included.
C2_PromptVerbatim ==
  (NonEmptyMessage /\ NoHistory /\ pc[1] \in {"wait", "done"}) =>
    /\ Len(GenerateCalls) = 1
    /\ GenerateCalls[1].json.prompt = req[1].message.val

\* C2, amended: with a non-empty message and no history, the prompt of
\* the backend call is the message without its leading and trailing
\* whitespace: a contiguous part of the message that starts and ends with
\* a character that is no whitespace, all that is left out being whitespace.
C2_PromptIsStrippedMessage ==
  (NonEmptyMessage /\ NoHistory /\ pc[1] \in {"wait", "done"}) =>
    /\ Len(GenerateCalls) = 1
    /\ LET p == GenerateCalls[1].json.prompt
           m == req[1].message.val
       IN  /\ Len(p) >= 1
           /\ ~IsSpace(p[1].ch)
           /\ ~IsSpace(p[Len(p)].ch)
           /\ \E i \in 1..Len(m) :
                /\ i + Len(p) - 1 <= Len(m)
                /\ p = SubSeq(m, i, i + Len(p) - 1)
                /\ \A k \in 1..Len(m) :
                     (k < i \/ k > i + Len(p) - 1) => IsSpace(m[k].ch)

\* A message with leading whitespace and no history has been sent on.
C2_Witness ==
  /\ NonEmptyMessage
  /\ NoHistory
  /\ pc[1] = "wait"
  /\ IsSpace(req[1].message.val[1].ch)

\* The history is a non-empty list whose turns are all objects with a role
\* of user or assistant and a text.
WellFormedHistory ==
  /\ req[1].history.kind = "list"
  /\ Len(req[1].history.val) >= 1
  /\ \A i \in 1..Len(req[1].history.val) :
       /\ req[1].history.val[i].shape = "ok"
       /\ req[1].history.val[i].role \in {"user", "assistant"}

\* The characters of s typed in a history turn, and those typed in the
\* message.
FromHistory(s) == SelectSeq(s, LAMBDA c : c.src[1] = "hist")

FromMessage(s) == SelectSeq(s, LAMBDA c : c.src[1] = "msg")

RECURSIVE KeptLength(_, _)
\* How many characters the turns i, i+1, ... of h have within their first
\* 300.
KeptLength(h, i) ==
  IF i > Len(h) THEN 0
  ELSE (IF Len(h[i].content) < 300 THEN Len(h[i].content) ELSE 300)
         + KeptLength(h, i + 1)

\* C3: with a non-empty message and a non-empty history of well-formed
\* turns, one backend call is issued, and of the history its prompt holds
\* exactly the first 300 characters of each of the last min(4, n) turns, in
\* the order of the history and nothing else of it; the prompt ends with
\* the new message (less its surrounding whitespace).
C3_PromptHoldsLastFourTruncated ==
  (NonEmptyMessage /\ WellFormedHistory /\ pc[1] \in {"wait", "done"}) =>
    /\ Len(GenerateCalls) = 1
    /\ LET p == GenerateCalls[1].json.prompt
           h == req[1].history.val
           m == req[1].message.val
           n == Len(h)
           first == IF n > 4 THEN n - 3 ELSE 1
           kept == FromHistory(p)
           tail == FromMessage(p)
       IN  \* only the last four turns, only their first 300 characters,
           \* each such character being the one the caller sent
           /\ \A k \in 1..Len(kept) :
                /\ kept[k].src[2] >= first
                /\ kept[k].src[2] <= n
                /\ kept[k].src[3] <= 300
                /\ kept[k].src[3] <= Len(h[kept[k].src[2]].content)
                /\ kept[k] = h[kept[k].src[2]].content[kept[k].src[3]]
           \* in the original order, none twice
           /\ \A k \in 1..(Len(kept) - 1) :
                \/ kept[k].src[2] < kept[k + 1].src[2]
                \/ /\ kept[k].src[2] = kept[k + 1].src[2]
                   /\ kept[k].src[3] < kept[k + 1].src[3]
           \* none of them missing
           /\ Len(kept) = KeptLength(h, first)
           \* followed by the message
           /\ Len(tail) >= 1
           /\ SubSeq(p, Len(p) - Len(tail) + 1, Len(p)) = tail
           /\ \A k \in 1..(Len(tail) - 1) :
                tail[k].src[3] + 1 = tail[k + 1].src[3]
           /\ \A k \in 1..Len(tail) : tail[k] = m[tail[k].src[3]]
           /\ \A j \in 1..Len(m) :
                ~IsSpace(m[j].ch) =>
                  /\ tail[1].src[3] <= j
                  /\ j <= tail[Len(tail)].src[3]

\* A history of more than four turns, one of the last four longer than 300
\* characters, has been sent on.
C3_Witness ==
  /\ NonEmptyMessage
  /\ WellFormedHistory
  /\ pc[1] = "wait"
  /\ Len(req[1].history.val) > 4
  /\ \E i \in 1..Len(req[1].history.val) :
       /\ i > Len(req[1].history.val) - 4
       /\ Len(req[1].history.val[i].content) > 300

\* C4: when the backend call of a chat request fails (it raises, the
\* status is not 200, or the reply cannot be read), the handler returns
\* one response, 500 "Failed to generate response", the same for every
\* kind of failure, and no exception leaves the handler.
C4_BackendFailureIsGenericError ==
  (Done /\ NonEmptyMessage /\ calls[1] # <<>> /\ BackendFailed) =>
    /\ ErrorIs(500, "Failed to generate response")
    /\ ~escaped[1]

\* The backend call of a chat request has timed out and is answered.
C4_Witness ==
  /\ Done
  /\ NonEmptyMessage
  /\ calls[1] # <<>>
  /\ reply[1].kind = "exception"
  /\ reply[1].exc = "Timeout"
  /\ Len(resp[1]) = 1

\* C5: whenever the backend replies 200 with a well-formed body carrying
\* generated text, the empty text included, the handler returns a success
\* response with exactly that text and the fixed model name.
C5_SuccessReturnsGeneratedText ==
  (Done /\ NonEmptyMessage /\ calls[1] # <<>> /\ reply[1].kind = "status"
     /\ reply[1].status = 200 /\ reply[1].body = "text") =>
    /\ Len(resp[1]) = 1
    /\ resp[1][1].status = 200
    /\ resp[1][1].body = [response |-> reply[1].text, model |-> "chemeng-tutor"]

\* C6: the health probe answers "healthy" with 200 exactly when the status
\* call completes with status 200; another status gives "unhealthy", an
\* exception gives "error", both with 503; no exception leaves the handler.
C6_HealthReflectsStatusCall ==
  (Done /\ req[1].op = "health") =>
    /\ ~escaped[1]
    /\ Len(resp[1]) = 1
    /\ Len(calls[1]) = 1
    /\ calls[1][1].url = "/api/tags"
    /\ (resp[1][1].body.status = "healthy") <=>
         (reply[1].kind = "status" /\ reply[1].status = 200)
    /\ (resp[1][1].body.status = "healthy") => resp[1][1].status = 200
    /\ (reply[1].kind = "status" /\ reply[1].status # 200) =>
         /\ resp[1][1].body.status = "unhealthy"
         /\ resp[1][1].status = 503
    /\ reply[1].kind = "exception" =>
         /\ resp[1][1].body.status = "error"
         /\ resp[1][1].status = 503

\* The status call has raised and the probe has answered.
C6_Witness ==
  /\ Done
  /\ req[1].op = "health"
  /\ reply[1].kind = "exception"
  /\ Len(resp[1]) = 1

\* The prompt can be built from the history: it is missing, null, another
\* falsy value, or a list whose last four turns are each an object with a
\* role and a text.
HistoryUsable ==
  \/ req[1].history.kind \in {"absent", "null", "falsy"}
  \/ /\ req[1].history.kind = "list"
     /\ \A i \in 1..Len(req[1].history.val) :
          i > Len(req[1].history.val) - 4 => req[1].history.val[i].shape = "ok"

Unreadable ==
  /\ IsChat
  /\ \/ req[1].body # "object"
     \/ req[1].message.kind = "nonstring"

\* The one response returned is a success carrying generated text.
IsSuccess ==
  /\ Len(resp[1]) = 1
  /\ resp[1][1].status = 200
  /\ DOMAIN resp[1][1].body = {"response", "model"}

\* C8, as claimed: a chat request ends in one of three outcomes: 400 for
\* an empty message only, one generic backend-failure error, or success;
\* there is no fourth response, and the backend-failure error is returned
\* only when the backend call failed.
C8_ThreeOutcomes ==
  (Done /\ IsChat) =>
    /\ ~escaped[1]
    /\ \/ ErrorIs(400, "Empty message") /\ BlankMessage
       \/ /\ ErrorIs(500, "Failed to generate response")
          /\ calls[1] # <<>>
          /\ BackendFailed
       \/ IsSuccess

\* C8, amended: a chat request ends in exactly one of four outcomes, with
\* one response and no exception leaving the handler: 400 "Empty message",
\* exactly when the body is an object whose message is missing or blank;
\* 500 "Internal error", exactly when the body is no object or the message
\* no string; 500 "Failed to generate response", the same response when
\* the backend call failed, when it replied 200 with empty generated text,
\* and when no call was made because the prompt could not be built from
\* the history; or success.
C8_FourOutcomes ==
  (Done /\ IsChat) =>
    /\ ~escaped[1]
    /\ Len(resp[1]) = 1
    /\ \/ ErrorIs(400, "Empty message")
       \/ ErrorIs(500, "Internal error")
       \/ ErrorIs(500, "Failed to generate response")
       \/ IsSuccess
    /\ ErrorIs(400, "Empty message") <=> BlankMessage
    /\ ErrorIs(500, "Internal error") <=> Unreadable
    /\ ErrorIs(500, "Failed to generate response") =>
         /\ NonEmptyMessage
         /\ \/ calls[1] = <<>> /\ ~HistoryUsable
            \/ calls[1] # <<>> /\ BackendFailed
            \/ /\ calls[1] # <<>>
               /\ reply[1].kind = "status"
               /\ reply[1].status = 200
               /\ reply[1].body = "text"
               /\ reply[1].text = <<>>
    /\ IsSuccess => (NonEmptyMessage /\ calls[1] # <<>> /\ ~BackendFailed)

\* A request whose message is no string has been answered "Internal error".
C8_Witness ==
  /\ Done
  /\ IsChat
  /\ req[1].body = "object"
  /\ req[1].message.kind = "nonstring"
  /\ ErrorIs(500, "Internal error")

C10_SuccessOnlyOnNonEmptyText ==
  (Done /\ IsChat) =>
    LET good == /\ Len(GenerateCalls) = 1
                /\ reply[1].kind = "status"
                /\ reply[1].status = 200
                /\ reply[1].body = "text"
                /\ Len(reply[1].text) > 0
    IN  /\ Len(resp[1]) = 1
        /\ (resp[1][1].status = 200 \/ "response" \in DOMAIN resp[1][1].body) =>
             /\ good
             /\ resp[1][1].status = 200
             /\ resp[1][1].body =
                  [response |-> reply[1].text, model |-> "chemeng-tutor"]
        /\ ~good =>
             /\ "error" \in DOMAIN resp[1][1].body
             /\ "response" \notin DOMAIN resp[1][1].body
             /\ resp[1][1].status # 200

\* A reply of 200 with generated text of whitespace has been passed on.
C10_Witness ==
  /\ Done
  /\ IsChat
  /\ reply[1].kind = "status"
  /\ reply[1].status = 200
  /\ reply[1].body = "text"
  /\ Len(reply[1].text) > 0
  /\ IsSpace(reply[1].text[1].ch)
  /\ IsSuccess

====
